---- MODULE Spec2Model ----
(***************************************************************************)
(* Model of movienight.  Its parts, each with a specification of its own:  *)
(*   Spec         the priority engine (src/lib/priority.ts): the pure      *)
(*                functions computeAggregateScore, getUnseenIntersection,  *)
(*                getIntersectionWithScores and countUnseenBy, applied to  *)
(*                a snapshot of the users collection and a movie catalog;  *)
(*   SpecUnseen   the hook that keeps the current user's list              *)
(*                (useUnseenMovies), its immediate and debounced saves;    *)
(*   SpecUtils    validateUsername and truncateText of lib/utils.ts;       *)
(*   SpecDebounce debounce of lib/utils.ts, with a clock;                  *)
(*   SpecUsers    the users collection (db/users.ts) and the login;        *)
(*   SpecEvents   a scheduled event (db/scheduling.ts) and its RSVPs.      *)
(* The variables of the other parts stay at their idle values in each.     *)
(*                                                                         *)
(* JavaScript values are modelled as follows.  An array is a sequence; a   *)
(* zero-based index k of the code is the position k + 1 of the sequence,   *)
(* and indexOf returns the zero-based index or -1.  A Set is the sequence  *)
(* of its members in insertion order (the order a for..of loop and         *)
(* Array.from visit them); Array.prototype.filter is SelectSeq.  A movie   *)
(* ID, a string in the code, is a number of MovieIds.  Of a User only      *)
(* unseenMovies is read by the engine, of a Movie only tmdbId; a Movie     *)
(* keeps a title (a number here) that tells the records of a catalog apart.*)
(***************************************************************************)
EXTENDS Integers, Sequences, FiniteSets

\* Bounds of the model.
NumIds == 3
MaxLen == 2
MaxUsers == 3
MaxMovies == 2

MovieIds == 1..NumIds

SeqsUpTo(S, n) == UNION {[1..k -> S] : k \in 0..n}

\* types/index.ts: User.unseenMovies, ordered TMDB IDs (first = highest priority).
UnseenLists == SeqsUpTo(MovieIds, MaxLen)
User == [unseenMovies : UnseenLists]
UserLists == SeqsUpTo(User, MaxUsers)

\* types/index.ts: Movie, keyed by tmdbId.  The catalogs are all sequences of
\* at most MaxMovies records, two records of a catalog differing in title.
Movie == [tmdbId : MovieIds, title : 1..MaxMovies]
Catalogs ==
    {[k \in 1..Len(ids) |-> [tmdbId |-> ids[k], title |-> k]] :
        ids \in SeqsUpTo(MovieIds, MaxMovies)}

\* The value a Map's get returns for a key it does not hold; the only falsy
\* value the movie field of an entry can take.
undefined == [tmdbId |-> 0, title |-> 0]

VARIABLES
    users,      \* the users snapshot the engine is called with
    op,         \* the engine function called last, "none" before any call
    movieId,    \* its movieId argument (0 when it takes none)
    movies,     \* its movies argument (<<>> when it takes none), as the
                \* call left it
    result,     \* the value it returned
    passed,     \* the movies argument as it was passed
    threw,      \* whether the call ended in a TypeError instead of a return
    localUnseenMovies,  \* useUnseenMovies: the hook's React state
    pendingTimeout,     \* debounce: <<>>, or <<args>> of the timeout that is set
    writes,             \* updateDoc calls in flight, oldest first
    persisted,          \* unseenMovies of the user's document on the server
    confirmed,          \* the list the user's last toggle or reorder produced
    event,              \* the handler or callback that ran last; of a
                        \* toggle also whether it is the first or the second
                        \* of consecutive toggles of its ID (calls) and the
                        \* local list before the first of them (before)
    calledFn,           \* lib/utils.ts: the function called last
    argString,          \* the string it is called with
    argNumber,          \* its maxLength argument (0 when it takes none)
    returned,           \* the value it returned
    now,                \* debounce: the time, in ticks of the timer clock
    delay,              \* the delay debounce was called with
    timeoutId,          \* the closure's timeoutId, 0 for null
    timers,             \* the timeouts set and neither fired nor cleared
    calls,              \* the calls of the debounced function so far
    invoked,            \* the invocations of fn so far
    store,              \* db/users.ts: the users collection, a document or
                        \* NoDoc for every key
    session,            \* useCurrentUser of every client: where its login
                        \* stands, the name it trimmed, its localUser
    lastOp,             \* the database call that returned last, with its
                        \* arguments and its result
    eventDoc,           \* db/scheduling.ts: the document of a scheduled event
    rsvp,               \* toggleRSVP of every user: idle, or the attendees
                        \* it is about to write
    toggles,            \* the toggleRSVP calls of every user that completed
    eventSeen           \* the event as the subscribers' last snapshot has it

engineVars == <<users, op, movieId, movies, result, passed, threw>>

hookVars ==
    <<localUnseenMovies, pendingTimeout, writes, persisted, confirmed, event>>

utilVars == <<calledFn, argString, argNumber, returned>>

debounceVars == <<now, delay, timeoutId, timers, calls, invoked>>

userVars == <<store, session, lastOp>>

eventVars == <<eventDoc, rsvp, toggles, eventSeen>>

otherThanEngine == <<hookVars, utilVars, debounceVars, userVars, eventVars>>

otherThanHook == <<engineVars, utilVars, debounceVars, userVars, eventVars>>

otherThanUtils == <<engineVars, hookVars, debounceVars, userVars, eventVars>>

otherThanDebounce == <<engineVars, hookVars, utilVars, userVars, eventVars>>

otherThanUsers == <<engineVars, hookVars, utilVars, debounceVars, eventVars>>

otherThanEvents == <<engineVars, hookVars, utilVars, debounceVars, userVars>>

vars == <<engineVars, hookVars, utilVars, debounceVars, userVars, eventVars>>

\* The value of event while no handler of the list hook has run.
NoEvent ==
    [type |-> "none", movieId |-> 0, active |-> 0, over |-> 0,
     calls |-> 0, before |-> <<>>]

\* The engine has not been called.
EngineIdle ==
    /\ users = <<>>
    /\ op = "none"
    /\ movieId = 0
    /\ movies = <<>>
    /\ result = <<>>
    /\ passed = <<>>
    /\ threw = FALSE

\* The list hook is not mounted.
HookIdle ==
    /\ localUnseenMovies = <<>>
    /\ pendingTimeout = <<>>
    /\ writes = <<>>
    /\ persisted = <<>>
    /\ confirmed = <<>>
    /\ event = NoEvent

\* No function of lib/utils.ts has been called.
UtilsIdle ==
    /\ calledFn = "none"
    /\ argString = <<>>
    /\ argNumber = 0
    /\ returned = <<>>

\* debounce has not been called.
DebounceIdle ==
    /\ now = 0
    /\ delay = 0
    /\ timeoutId = 0
    /\ timers = {}
    /\ calls = <<>>
    /\ invoked = <<>>

\* The users collection is not in use.
UsersIdle ==
    /\ store = <<>>
    /\ session = <<>>
    /\ lastOp = <<>>

\* The events collection is not in use.
EventsIdle ==
    /\ eventDoc = <<>>
    /\ rsvp = <<>>
    /\ toggles = <<>>
    /\ eventSeen = <<>>

----------------------------------------------------------------------------
\* Array and Set primitives of the JavaScript runtime.

\* Array.prototype.indexOf from zero-based index k: first index of x, or -1.
RECURSIVE IndexOfFrom(_, _, _)
IndexOfFrom(arr, x, k) ==
    IF k >= Len(arr) THEN -1
    ELSE IF arr[k + 1] = x THEN k
    ELSE IndexOfFrom(arr, x, k + 1)

indexOf(arr, x) == IndexOfFrom(arr, x, 0)

\* Mutant of includes: only the first element is compared.
includes_FirstOnly(arr, x) == Len(arr) > 0 /\ arr[1] = x

\* Array.prototype.includes.
includes(arr, x) == \E k \in 1..Len(arr) : arr[k] = x

\* Set.prototype.has.
SetHas(set, x) == \E k \in 1..Len(set) : set[k] = x

\* Mutant of SetAdd: a new member goes first.
SetAdd_Prepend(set, x) == IF SetHas(set, x) THEN set ELSE <<x>> \o set

\* Set.prototype.add: a new member goes last, a present one changes nothing.
SetAdd(set, x) == IF SetHas(set, x) THEN set ELSE Append(set, x)

\* Set.prototype.delete.
SetDelete(set, x) == LET Other(y) == y # x IN SelectSeq(set, Other)

\* new Set(iterable): the members are added in the iterable's order.
RECURSIVE NewSetFrom(_, _)
NewSetFrom(set, arr) ==
    IF arr = <<>> THEN set
    ELSE NewSetFrom(SetAdd(set, Head(arr)), Tail(arr))

\* Mutant of NewSet: the array itself, repeated members kept.
NewSet_KeepsDuplicates(arr) == arr

NewSet(arr) == NewSetFrom(<<>>, arr)

\* Map.prototype.set on a Map held as the sequence of its <<key, value>>
\* entries: a key already present keeps its place and takes the new value.
MapSet(map, key, value) ==
    IF \E k \in 1..Len(map) : map[k][1] = key
    THEN [k \in 1..Len(map) |->
             IF map[k][1] = key THEN <<key, value>> ELSE map[k]]
    ELSE Append(map, <<key, value>>)

\* new Map(entries): the entries are set in order, so the last value of a
\* key is the one kept.
RECURSIVE NewMapFrom(_, _)
NewMapFrom(map, entries) ==
    IF entries = <<>> THEN map
    ELSE NewMapFrom(MapSet(map, Head(entries)[1], Head(entries)[2]),
                    Tail(entries))

NewMap(entries) == NewMapFrom(<<>>, entries)

\* Map.prototype.get: the value of the key, or undefined.
MapGet(map, key) ==
    IF \E k \in 1..Len(map) : map[k][1] = key
    THEN map[CHOOSE k \in 1..Len(map) : map[k][1] = key][2]
    ELSE undefined

----------------------------------------------------------------------------
\* computeAggregateScore

\* Mutant of ReduceScore: the weight is length - index - 1, the last place
\* worth 0.
RECURSIVE ReduceScore_LastPlaceWorthZero(_, _, _, _)
ReduceScore_LastPlaceWorthZero(id, us, k, score) ==
    IF k >= Len(us) THEN score
    ELSE LET user == us[k + 1]
             index == indexOf(user.unseenMovies, id)
         IN  IF index = -1
             THEN ReduceScore_LastPlaceWorthZero(id, us, k + 1, score)
             ELSE ReduceScore_LastPlaceWorthZero(id, us, k + 1,
                      score + (Len(user.unseenMovies) - index - 1))

\* Mutant of ReduceScore: no test of index === -1.
RECURSIVE ReduceScore_NoMissingCheck(_, _, _, _)
ReduceScore_NoMissingCheck(id, us, k, score) ==
    IF k >= Len(us) THEN score
    ELSE LET user == us[k + 1]
             index == indexOf(user.unseenMovies, id)
         IN  ReduceScore_NoMissingCheck(id, us, k + 1,
                 score + (Len(user.unseenMovies) - index))

\* Mutant of ReduceScore: a user without the movie takes 1 off the score.
RECURSIVE ReduceScore_PenalizesAbsence(_, _, _, _)
ReduceScore_PenalizesAbsence(id, us, k, score) ==
    IF k >= Len(us) THEN score
    ELSE LET user == us[k + 1]
             index == indexOf(user.unseenMovies, id)
         IN  IF index = -1
             THEN ReduceScore_PenalizesAbsence(id, us, k + 1, score - 1)
             ELSE ReduceScore_PenalizesAbsence(id, us, k + 1,
                      score + (Len(user.unseenMovies) - index))

\* Mutant of ReduceScore: a place is worth twice length - index.
RECURSIVE ReduceScore_PlaceWorthDouble(_, _, _, _)
ReduceScore_PlaceWorthDouble(id, us, k, score) ==
    IF k >= Len(us) THEN score
    ELSE LET user == us[k + 1]
             index == indexOf(user.unseenMovies, id)
         IN  IF index = -1
             THEN ReduceScore_PlaceWorthDouble(id, us, k + 1, score)
             ELSE ReduceScore_PlaceWorthDouble(id, us, k + 1,
                      score + 2 * (Len(user.unseenMovies) - index))

\* The reducer, applied to users[k + 1 ..] with the accumulator score.
RECURSIVE ReduceScore(_, _, _, _)
ReduceScore(id, us, k, score) ==
    IF k >= Len(us) THEN score
    ELSE LET user == us[k + 1]
             index == indexOf(user.unseenMovies, id)
         IN  IF index = -1 THEN ReduceScore(id, us, k + 1, score)
             ELSE ReduceScore(id, us, k + 1,
                              score + (Len(user.unseenMovies) - index))

computeAggregateScore(id, us) == ReduceScore(id, us, 0, 0)

----------------------------------------------------------------------------
\* getUnseenIntersection

\* Mutant of DropMissing: the iteration steps on after a delete, passing
\* over the member that took the deleted one's place.
RECURSIVE DropMissing_SkipsAfterDelete(_, _, _)
DropMissing_SkipsAfterDelete(firstUserUnseen, userUnseen, k) ==
    IF k > Len(firstUserUnseen) THEN firstUserUnseen
    ELSE IF ~SetHas(userUnseen, firstUserUnseen[k])
         THEN DropMissing_SkipsAfterDelete(
                  SetDelete(firstUserUnseen, firstUserUnseen[k]),
                  userUnseen, k + 1)
         ELSE DropMissing_SkipsAfterDelete(firstUserUnseen, userUnseen, k + 1)

\* Mutant of DropMissing: nothing is deleted.
DropMissing_KeepsAll(firstUserUnseen, userUnseen, k) == firstUserUnseen

\* for (const movieId of firstUserUnseen): the iteration is at position k of
\* the Set; deleting the member it stands on moves the next member there.
RECURSIVE DropMissing(_, _, _)
DropMissing(firstUserUnseen, userUnseen, k) ==
    IF k > Len(firstUserUnseen) THEN firstUserUnseen
    ELSE IF ~SetHas(userUnseen, firstUserUnseen[k])
         THEN DropMissing(SetDelete(firstUserUnseen, firstUserUnseen[k]),
                          userUnseen, k)
         ELSE DropMissing(firstUserUnseen, userUnseen, k + 1)

\* Mutant of IntersectFrom: the loop ends at i < users.length - 1, the last
\* user never intersected.
RECURSIVE IntersectFrom_SkipsLastUser(_, _, _)
IntersectFrom_SkipsLastUser(firstUserUnseen, us, i) ==
    IF i >= Len(us) - 1 THEN firstUserUnseen
    ELSE IntersectFrom_SkipsLastUser(
             DropMissing(firstUserUnseen, NewSet(us[i + 1].unseenMovies), 1),
             us, i + 1)

\* for (let i = 1; i < users.length; i++)
RECURSIVE IntersectFrom(_, _, _)
IntersectFrom(firstUserUnseen, us, i) ==
    IF i >= Len(us) THEN firstUserUnseen
    ELSE IntersectFrom(
             DropMissing(firstUserUnseen, NewSet(us[i + 1].unseenMovies), 1),
             us, i + 1)

getUnseenIntersection(us) ==
    IF Len(us) = 0 THEN <<>>
    ELSE IntersectFrom(NewSet(us[1].unseenMovies), us, 1)

\* Reading a property of arr[k], k zero-based, throws a TypeError when arr
\* has no element k (arr[k] is undefined).
ReadThrows(arr, k) == k >= Len(arr)

\* Mutant of getUnseenIntersectionThrows: no users.length === 0 return before
\* users[0].unseenMovies is read.
getUnseenIntersectionThrows_NoLengthGuard(us) ==
    ReadThrows(us, 0) \/ \E i \in 1..(Len(us) - 1) : ReadThrows(us, i)

\* Whether getUnseenIntersection throws: it reads users[0].unseenMovies
\* after the length guard and users[i].unseenMovies for 1 <= i < length.
getUnseenIntersectionThrows(us) ==
    IF Len(us) = 0 THEN FALSE
    ELSE ReadThrows(us, 0) \/ \E i \in 1..(Len(us) - 1) : ReadThrows(us, i)

\* Mutant of WorkingObject: const firstUserUnseen = users[0].unseenMovies,
\* the deletes done on the user's own array.
WorkingObject_Aliased == "users[0].unseenMovies"

\* The object the deletes of the loop act on: new Set(...) makes an object
\* of its own, filled from users[0].unseenMovies.
WorkingObject == "new Set"

\* The users argument after getUnseenIntersection returned: the first
\* user's array holds what the deletes left only if they acted on it.
usersAfterGetUnseenIntersection(us) ==
    IF Len(us) = 0 THEN us
    ELSE IF WorkingObject = "users[0].unseenMovies"
         THEN [us EXCEPT ![1].unseenMovies = getUnseenIntersection(us)]
         ELSE us

----------------------------------------------------------------------------
\* getIntersectionWithScores

\* Mutant of compareScore: a.score - b.score, an ascending sort.
compareScore_Ascending(a, b) == a.score - b.score

\* The comparator of the sort: (a, b) => b.score - a.score.
compareScore(a, b) == b.score - a.score

\* Mutant of InsertSorted: an item goes before the items it compares equal
\* to, which reverses ties.
RECURSIVE InsertSorted_BeforeEquals(_, _)
InsertSorted_BeforeEquals(sorted, item) ==
    IF sorted = <<>> THEN <<item>>
    ELSE IF compareScore(Head(sorted), item) >= 0 THEN <<item>> \o sorted
    ELSE <<Head(sorted)>> \o InsertSorted_BeforeEquals(Tail(sorted), item)

\* Array.prototype.sort is stable: an item goes before the first item the
\* comparator puts after it, and behind every item it compares equal to.
RECURSIVE InsertSorted(_, _)
InsertSorted(sorted, item) ==
    IF sorted = <<>> THEN <<item>>
    ELSE IF compareScore(Head(sorted), item) > 0 THEN <<item>> \o sorted
    ELSE <<Head(sorted)>> \o InsertSorted(Tail(sorted), item)

RECURSIVE SortFrom(_, _)
SortFrom(sorted, arr) ==
    IF arr = <<>> THEN sorted
    ELSE SortFrom(InsertSorted(sorted, Head(arr)), Tail(arr))

sort(arr) == SortFrom(<<>>, arr)

\* Mutant of MovieEntries: the Map is keyed by another field of the record.
MovieEntries_KeyedByTitle(ms) == [k \in 1..Len(ms) |-> <<ms[k].title, ms[k]>>]

\* movies.map((m) => [m.tmdbId, m])
MovieEntries(ms) == [k \in 1..Len(ms) |-> <<ms[k].tmdbId, ms[k]>>]

\* intersection.map((movieId) => ({movieId, score, movie}))
ScoreEntries(intersection, us, movieMap) ==
    [k \in 1..Len(intersection) |->
        [movieId |-> intersection[k],
         score   |-> computeAggregateScore(intersection[k], us),
         movie   |-> MapGet(movieMap, intersection[k])]]

\* Mutant of HasMovie: the filter keeps every item.
HasMovie_Always(item) == TRUE

\* .filter((item) => item.movie): undefined is the one falsy movie.
HasMovie(item) == item.movie # undefined

\* Mutant of getIntersectionWithScores: the intersection of no users is
\* taken to be every movie of the catalog.
getIntersectionWithScores_AllMoviesOfNoUsers(us, ms) ==
    LET intersection ==
            IF Len(us) = 0 THEN NewSet([k \in 1..Len(ms) |-> ms[k].tmdbId])
            ELSE getUnseenIntersection(us)
        movieMap == NewMap(MovieEntries(ms))
    IN  sort(SelectSeq(ScoreEntries(intersection, us, movieMap), HasMovie))

getIntersectionWithScores(us, ms) ==
    LET intersection == getUnseenIntersection(us)
        movieMap == NewMap(MovieEntries(ms))
    IN  sort(SelectSeq(ScoreEntries(intersection, us, movieMap), HasMovie))

\* getIntersectionWithScores throws where its call of getUnseenIntersection
\* does; the non-null assertion on movieMap.get is erased at run time.
getIntersectionWithScoresThrows(us, ms) == getUnseenIntersectionThrows(us)

\* The arguments after getIntersectionWithScores returned: users as its call
\* of getUnseenIntersection left it; movies is read by map alone, and the
\* in-place sort acts on the array filter returned.
usersAfterGetIntersectionWithScores(us, ms) == usersAfterGetUnseenIntersection(us)

moviesAfterGetIntersectionWithScores(us, ms) == ms

----------------------------------------------------------------------------
\* countUnseenBy

countUnseenBy(id, us) ==
    LET Has(user) == includes(user.unseenMovies, id)
    IN  Len(SelectSeq(us, Has))

----------------------------------------------------------------------------
\* GroupView (components/group): the divisor of the score bars.

RECURSIVE MathMax(_)
MathMax(scores) ==
    IF Len(scores) = 1 THEN scores[1]
    ELSE LET rest == MathMax(Tail(scores))
         IN  IF scores[1] >= rest THEN scores[1] ELSE rest

\* maxScore: Math.max over the entries' scores, 0 for no entries.
maxScore(intersectionMovies) ==
    IF Len(intersectionMovies) > 0
    THEN MathMax([k \in 1..Len(intersectionMovies) |-> intersectionMovies[k].score])
    ELSE 0

----------------------------------------------------------------------------
\* The calls.

Init ==
    /\ users \in UserLists
    /\ op = "none"
    /\ movieId = 0
    /\ movies = <<>>
    /\ result = <<>>
    /\ passed = <<>>
    /\ threw = FALSE
    /\ HookIdle
    /\ UtilsIdle
    /\ DebounceIdle
    /\ UsersIdle
    /\ EventsIdle

\* reduce, indexOf and the callback's reads change nothing and cannot throw.
CallComputeAggregateScore ==
    \E id \in MovieIds :
        /\ op' = "computeAggregateScore"
        /\ movieId' = id
        /\ movies' = <<>>
        /\ passed' = <<>>
        /\ threw' = FALSE
        /\ result' = computeAggregateScore(id, users)
        /\ UNCHANGED <<users, otherThanEngine>>

CallGetUnseenIntersection ==
    /\ op' = "getUnseenIntersection"
    /\ movieId' = 0
    /\ movies' = <<>>
    /\ passed' = <<>>
    /\ threw' = getUnseenIntersectionThrows(users)
    /\ result' = IF getUnseenIntersectionThrows(users) THEN <<>>
                 ELSE getUnseenIntersection(users)
    /\ users' = IF getUnseenIntersectionThrows(users) THEN users
                ELSE usersAfterGetUnseenIntersection(users)
    /\ UNCHANGED otherThanEngine

CallGetIntersectionWithScores ==
    \E ms \in Catalogs :
        /\ op' = "getIntersectionWithScores"
        /\ movieId' = 0
        /\ passed' = ms
        /\ threw' = getIntersectionWithScoresThrows(users, ms)
        /\ result' = IF getIntersectionWithScoresThrows(users, ms) THEN <<>>
                     ELSE getIntersectionWithScores(users, ms)
        /\ movies' = IF getIntersectionWithScoresThrows(users, ms) THEN ms
                     ELSE moviesAfterGetIntersectionWithScores(users, ms)
        /\ users' = IF getIntersectionWithScoresThrows(users, ms) THEN users
                    ELSE usersAfterGetIntersectionWithScores(users, ms)
        /\ UNCHANGED otherThanEngine

\* filter, includes and the callback's reads change nothing and cannot throw.
CallCountUnseenBy ==
    \E id \in MovieIds :
        /\ op' = "countUnseenBy"
        /\ movieId' = id
        /\ movies' = <<>>
        /\ passed' = <<>>
        /\ threw' = FALSE
        /\ result' = countUnseenBy(id, users)
        /\ UNCHANGED <<users, otherThanEngine>>

Next ==
    \/ CallComputeAggregateScore
    \/ CallGetUnseenIntersection
    \/ CallGetIntersectionWithScores
    \/ CallCountUnseenBy

Spec == Init /\ [][Next]_vars

----------------------------------------------------------------------------
\* Vocabulary of the properties.

Range(s) == {s[k] : k \in 1..Len(s)}

NoDuplicates(s) == \A i, j \in 1..Len(s) : i # j => s[i] # s[j]

DuplicateFree(us) == \A k \in 1..Len(us) : NoDuplicates(us[k].unseenMovies)

\* The IDs every user of us has in unseenMovies (us not empty).
CommonIds(us) ==
    {id \in UNION {Range(us[k].unseenMovies) : k \in 1..Len(us)} :
        \A k \in 1..Len(us) : id \in Range(us[k].unseenMovies)}

\* n - i for the zero-based position i of id in a duplicate-free list of
\* length n, and 0 for a list without id.
RankWeight(id, list) ==
    IF id \in Range(list)
    THEN Len(list) - ((CHOOSE k \in 1..Len(list) : list[k] = id) - 1)
    ELSE 0

RECURSIVE SumOfRankWeights(_, _)
SumOfRankWeights(id, us) ==
    IF us = <<>> THEN 0
    ELSE RankWeight(id, Head(us).unseenMovies) + SumOfRankWeights(id, Tail(us))

Perms(n) == {p \in [1..n -> 1..n] : \A i, j \in 1..n : i # j => p[i] # p[j]}

Permuted(us, p) == [k \in 1..Len(us) |-> us[p[k]]]

----------------------------------------------------------------------------
\* C1: over users with duplicate-free lists, computeAggregateScore(movieId,
\* users) is the sum over the users of n - i, n the length of the user's
\* list and i the zero-based position of movieId in it, a user without the
\* movie adding 0.
C1_ScoreIsSumOfRankWeights ==
    (op = "computeAggregateScore" /\ DuplicateFree(users))
        => result = SumOfRankWeights(movieId, users)

\* One user ranks the movie first of two, one last of two, one not at all.
C1_Witness ==
    /\ op = "computeAggregateScore"
    /\ DuplicateFree(users)
    /\ \E i, j, k \in 1..Len(users) :
          /\ Len(users[i].unseenMovies) = 2 /\ users[i].unseenMovies[1] = movieId
          /\ Len(users[j].unseenMovies) = 2 /\ users[j].unseenMovies[2] = movieId
          /\ users[k].unseenMovies # <<>>
          /\ movieId \notin Range(users[k].unseenMovies)
    /\ result = 3

\* C2: computeAggregateScore is a non-negative integer, and it is 0 exactly
\* when users is empty or no user's list contains movieId.
C2_ScoreZeroIffNobodyHasIt ==
    op = "computeAggregateScore"
        => /\ result \in Nat
           /\ result = 0 <=>
                  \/ Len(users) = 0
                  \/ \A k \in 1..Len(users) :
                         movieId \notin Range(users[k].unseenMovies)

\* Users with non-empty lists, none of which holds the movie: the score is 0.
C2_Witness ==
    /\ op = "computeAggregateScore"
    /\ Len(users) >= 2
    /\ \A k \in 1..Len(users) :
          /\ users[k].unseenMovies # <<>>
          /\ movieId \notin Range(users[k].unseenMovies)
    /\ result = 0

\* C3: for a non-empty users list the IDs returned by getUnseenIntersection
\* are exactly the IDs contained in every user's list.
C3_IntersectionIsCommonIds ==
    (op = "getUnseenIntersection" /\ Len(users) >= 1)
        => Range(result) = CommonIds(users)

\* Three users; some ID of the first is dropped and some ID is kept.
C3_Witness ==
    /\ op = "getUnseenIntersection"
    /\ Len(users) = 3
    /\ result # <<>>
    /\ Range(users[1].unseenMovies) \ Range(result) # {}

\* C4: the sequence returned by getUnseenIntersection holds no ID twice,
\* also for users whose lists repeat IDs.
C4_IntersectionHasNoDuplicates ==
    op = "getUnseenIntersection" => NoDuplicates(result)

\* The first user's list repeats an ID that every user has.
C4_Witness ==
    /\ op = "getUnseenIntersection"
    /\ Len(users) >= 2
    /\ ~NoDuplicates(users[1].unseenMovies)
    /\ result # <<>>

\* C5: with no users getUnseenIntersection returns <<>>, computeAggregateScore
\* and countUnseenBy return 0 and getIntersectionWithScores returns <<>> for
\* every catalog; getIntersectionWithScores also returns <<>> for an empty
\* catalog, whatever the users.
C5_EmptyInputsGiveEmptyResults ==
    /\ (Len(users) = 0 /\ op = "getUnseenIntersection") => result = <<>>
    /\ (Len(users) = 0 /\ op = "computeAggregateScore") => result = 0
    /\ (Len(users) = 0 /\ op = "countUnseenBy") => result = 0
    /\ (Len(users) = 0 /\ op = "getIntersectionWithScores") => result = <<>>
    /\ (op = "getIntersectionWithScores" /\ movies = <<>>) => result = <<>>

\* No users and a full catalog.
C5_Witness ==
    /\ op = "getIntersectionWithScores"
    /\ users = <<>>
    /\ Len(movies) = MaxMovies
    /\ result = <<>>

\* C6: for exactly one user with a duplicate-free list, getUnseenIntersection
\* returns that list: same members, same length, same order.
C6_SingleUserGetsOwnList ==
    (op = "getUnseenIntersection" /\ Len(users) = 1 /\ DuplicateFree(users))
        => result = users[1].unseenMovies

\* One user with a list of MaxLen distinct IDs, not in ascending order.
C6_Witness ==
    /\ op = "getUnseenIntersection"
    /\ Len(users) = 1
    /\ DuplicateFree(users)
    /\ Len(users[1].unseenMovies) = MaxLen
    /\ users[1].unseenMovies[1] > users[1].unseenMovies[2]
    /\ result = users[1].unseenMovies

\* C7: getUnseenIntersection returns the same set of IDs for every
\* permutation of the users list.
C7_MembershipIgnoresUserOrder ==
    op = "getUnseenIntersection"
        => \A p \in Perms(Len(users)) :
               Range(getUnseenIntersection(Permuted(users, p))) = Range(result)

\* Three users with three different ID sets and a common ID.
C7_Witness ==
    /\ op = "getUnseenIntersection"
    /\ Len(users) = 3
    /\ \A i, j \in 1..3 :
          i # j => Range(users[i].unseenMovies) # Range(users[j].unseenMovies)
    /\ result # <<>>

\* C8: every entry of getIntersectionWithScores(users, movies) has a movieId
\* that getUnseenIntersection(users) returns, and the scores of the entries
\* never increase along the sequence.
C8_RankedEntriesAreCommonAndDescending ==
    op = "getIntersectionWithScores"
        => /\ \A k \in 1..Len(result) :
                  result[k].movieId \in Range(getUnseenIntersection(users))
           /\ \A k \in 1..(Len(result) - 1) :
                  result[k].score >= result[k + 1].score

\* Two entries of different score, returned in the opposite order of the
\* intersection.
C8_Witness ==
    /\ op = "getIntersectionWithScores"
    /\ Len(result) = 2
    /\ result[1].score > result[2].score
    /\ getUnseenIntersection(users) = <<result[2].movieId, result[1].movieId>>

\* C9: the movieIds of getIntersectionWithScores(users, movies) are exactly
\* the IDs of getUnseenIntersection(users) that are the tmdbId of a record of
\* movies, each once.
C9_RankedIdsAreResolvableCommonIds ==
    op = "getIntersectionWithScores"
        => /\ {result[k].movieId : k \in 1..Len(result)}
                  = {id \in Range(getUnseenIntersection(users)) :
                        \E j \in 1..Len(movies) : movies[j].tmdbId = id}
           /\ \A i, j \in 1..Len(result) :
                  i # j => result[i].movieId # result[j].movieId

\* Two common IDs, one in the catalog and one not.
C9_Witness ==
    /\ op = "getIntersectionWithScores"
    /\ Len(users) >= 2
    /\ Len(getUnseenIntersection(users)) = 2
    /\ movies # <<>>
    /\ Len(result) = 1

\* C10: every entry e of getIntersectionWithScores(users, movies) has
\* e.score = computeAggregateScore(e.movieId, users) and e.movie a record of
\* movies whose tmdbId is e.movieId.
C10_EntryCarriesScoreAndRecord ==
    op = "getIntersectionWithScores"
        => \A k \in 1..Len(result) :
               /\ result[k].score = computeAggregateScore(result[k].movieId, users)
               /\ result[k].movie \in Range(movies)
               /\ result[k].movie.tmdbId = result[k].movieId

\* Several users, and a catalog with two records of the entry's tmdbId.
C10_Witness ==
    /\ op = "getIntersectionWithScores"
    /\ Len(users) >= 2
    /\ Len(result) >= 1
    /\ Len(movies) = 2
    /\ movies[1].tmdbId = movies[2].tmdbId
    /\ result[1].movie = movies[2]

\* C11: countUnseenBy(movieId, users) is the number of users whose list
\* contains movieId at any position; it is 0 for no users or when no user
\* has the movie, and never more than users.length.
C11_CountIsNumberOfHolders ==
    op = "countUnseenBy"
        => /\ result = Cardinality({k \in 1..Len(users) :
                                      movieId \in Range(users[k].unseenMovies)})
           /\ result <= Len(users)
           /\ (Len(users) = 0 \/ \A k \in 1..Len(users) :
                  movieId \notin Range(users[k].unseenMovies)) => result = 0

\* One user has the movie first, one has it last, one does not have it.
C11_Witness ==
    /\ op = "countUnseenBy"
    /\ Len(users) = 3
    /\ \E i, j, k \in 1..3 :
          /\ Len(users[i].unseenMovies) = 2 /\ users[i].unseenMovies[1] = movieId
          /\ Len(users[j].unseenMovies) = 2 /\ users[j].unseenMovies[2] = movieId
          /\ users[j].unseenMovies[1] # movieId
          /\ movieId \notin Range(users[k].unseenMovies)
    /\ result = 2

\* C12: the four functions are total: on every users list and catalog,
\* empty ones and lists with repeated IDs included, each call returns a value
\* of its result type and none ends in an error.
C12_EngineIsTotal ==
    /\ threw = FALSE
    /\ op \in {"computeAggregateScore", "countUnseenBy"} => result \in Nat
    /\ op = "getUnseenIntersection" => result \in Seq(MovieIds)
    /\ op = "getIntersectionWithScores"
           => \A k \in 1..Len(result) :
                  result[k] \in [movieId : MovieIds, score : Nat, movie : Movie]

\* No users at all, and a call of the function that reads users[0].
C12_Witness ==
    /\ op = "getUnseenIntersection"
    /\ users = <<>>
    /\ threw = FALSE
    /\ result = <<>>

C15_ScoreIsAdditive ==
    op = "computeAggregateScore"
        => \A u \in User :
               LET more == computeAggregateScore(movieId, Append(users, u))
               IN  /\ more >= result
                   /\ more = result <=> movieId \notin Range(u.unseenMovies)

\* A positive score over users of whom one does not have the movie.
C15_Witness ==
    /\ op = "computeAggregateScore"
    /\ Len(users) >= 2
    /\ result > 0
    /\ \E k \in 1..Len(users) : movieId \notin Range(users[k].unseenMovies)

\* C16: two entries of getIntersectionWithScores(users, movies) of equal
\* score are in the order of their IDs in getUnseenIntersection(users), which
\* is the order of their first places in the first user's list.
C16_TiesKeepIntersectionOrder ==
    op = "getIntersectionWithScores"
        => \A i, j \in 1..Len(result) :
               (i < j /\ result[i].score = result[j].score)
                   => /\ indexOf(getUnseenIntersection(users), result[i].movieId)
                           < indexOf(getUnseenIntersection(users), result[j].movieId)
                      /\ indexOf(users[1].unseenMovies, result[i].movieId)
                           < indexOf(users[1].unseenMovies, result[j].movieId)

\* Two entries of equal score.
C16_Witness ==
    /\ op = "getIntersectionWithScores"
    /\ Len(result) = 2
    /\ result[1].score = result[2].score
    /\ result[1].movieId # result[2].movieId

\* The total length of the users' lists.
RECURSIVE SumOfLengths(_)
SumOfLengths(us) ==
    IF us = <<>> THEN 0
    ELSE Len(Head(us).unseenMovies) + SumOfLengths(Tail(us))

\* C27: over duplicate-free lists, the score of a movie is at least the
\* number of users holding it and at most the total length of the lists;
\* every entry of a non-empty getIntersectionWithScores result has a score of
\* at least users.length, which is at least 1, so GroupView's maxScore, the
\* divisor of its score bars, is not 0.
C27_ScoreBetweenCountAndTotalLength ==
    /\ (op = "computeAggregateScore" /\ DuplicateFree(users))
           => /\ countUnseenBy(movieId, users) <= result
              /\ result <= SumOfLengths(users)
    /\ (op = "getIntersectionWithScores" /\ DuplicateFree(users)
            /\ result # <<>>)
           => /\ \A k \in 1..Len(result) : result[k].score >= Len(users)
              /\ Len(users) >= 1
              /\ maxScore(result) # 0

\* A score strictly between the number of holders and the total length.
C27_Witness ==
    /\ op = "computeAggregateScore"
    /\ DuplicateFree(users)
    /\ Len(users) = MaxUsers
    /\ countUnseenBy(movieId, users) < result
    /\ result < SumOfLengths(users)

\* C28: for users not empty, appending a user u leaves the IDs of
\* getUnseenIntersection among those it had, and the result is never longer
\* than any user's list; for no users the result is empty although a single
\* user's intersection holds the whole of their list.
C28_MoreUsersShrinkIntersection ==
    op = "getUnseenIntersection"
        => IF users # <<>>
           THEN /\ \A u \in User :
                       Range(getUnseenIntersection(Append(users, u)))
                           \subseteq Range(result)
                /\ \A k \in 1..Len(users) :
                       Len(result) <= Len(users[k].unseenMovies)
           ELSE /\ result = <<>>
                /\ \A u \in User :
                       Range(getUnseenIntersection(<<u>>))
                           = Range(u.unseenMovies)

\* An intersection that a further user can shrink, as long as the shortest
\* list.
C28_Witness ==
    /\ op = "getUnseenIntersection"
    /\ Len(users) >= 2
    /\ Len(result) = 1
    /\ \E k \in 1..Len(users) : Len(users[k].unseenMovies) = 1
    /\ \E k \in 1..Len(users) : Len(users[k].unseenMovies) = MaxLen

----------------------------------------------------------------------------
(***************************************************************************)
(* The current user's list: hooks/useUnseenMovies.ts, the debounce of      *)
(* lib/utils.ts, handleDragEnd of components/movies/UnseenList.tsx and     *)
(* updateUserUnseenMovies of db/users.ts, for a named user in connected    *)
(* mode (userName is set and isFirebaseConfigured holds).                  *)
(*                                                                         *)
(* updateDoc hands a write to the Firestore client, which sends its writes *)
(* to the server in the order they were made; writes holds those not yet   *)
(* applied.  The users subscription delivers the client's view of the      *)
(* document, the server's copy overlaid with the writes in flight, and may *)
(* deliver it at any moment, since a change to any user's document makes a *)
(* new snapshot.  confirmed is not a variable of the code: it records the  *)
(* list the user's last toggle or reorder produced.                        *)
(***************************************************************************)

\* Bound on the updateDoc calls in flight at once.
MaxWrites == 2

\* The lists a user's document can hold: createUser stores [] and every
\* later value comes from the save path.
StoredLists == {s \in SeqsUpTo(MovieIds, NumIds) : NoDuplicates(s)}

\* The over of a DragEndEvent when the item is dropped outside any target.
null == 0

\* Mutant of newList: the ID is appended whether or not the list has it.
newList_AlwaysAppends(prev, id) == Append(prev, id)

\* Mutant of newList: an absent ID is put first instead of last.
newList_Prepends(prev, id) ==
    LET Other(x) == x # id
    IN  IF includes(prev, id) THEN SelectSeq(prev, Other)
        ELSE <<id>> \o prev

\* Mutant of newList: an ID the list holds is left in it.
newList_NeverRemoves(prev, id) ==
    IF includes(prev, id) THEN prev ELSE Append(prev, id)

\* toggleUnseen: the list the state updater computes from prev.
newList(prev, id) ==
    LET Other(x) == x # id
    IN  IF includes(prev, id) THEN SelectSeq(prev, Other)
        ELSE Append(prev, id)

\* Array.prototype.splice(k, 1) on arr: arr without its element at index k.
SpliceOut(arr, k) == SubSeq(arr, 1, k) \o SubSeq(arr, k + 2, Len(arr))

\* Array.prototype.splice(k, 0, x) on arr: arr with x put in at index k.
SpliceIn(arr, k, x) == SubSeq(arr, 1, k) \o <<x>> \o SubSeq(arr, k + 1, Len(arr))

\* Mutant of arrayMove: the element is put in one place before the target.
arrayMove_InsertsBeforeTarget(array, from, to) ==
    SpliceIn(SpliceOut(array, from), IF to > 0 THEN to - 1 ELSE 0,
             array[from + 1])

\* arrayMove of @dnd-kit/sortable, for indices of the array: a copy of array
\* with the element at index from taken out and put back at index to.
arrayMove(array, from, to) ==
    SpliceIn(SpliceOut(array, from), to, array[from + 1])

\* The client's view of the user's unseenMovies: the last write in flight,
\* or the server's copy when none is.
firestoreUserUnseenMovies ==
    IF writes # <<>> THEN writes[Len(writes)] ELSE persisted

\* saveUnseenMovies(list): updateUserUnseenMovies issues the updateDoc.
saveUnseenMovies(list) == writes' = Append(writes, list)

\* debouncedSave(list): the timeout that is set, if any, is cleared and a new
\* one is set that will call saveUnseenMovies(list).
debouncedSave(list) == pendingTimeout' = <<list>>

\* reorderUnseenMovies(newOrder).
reorderUnseenMovies(newOrder) ==
    /\ localUnseenMovies' = newOrder
    /\ debouncedSave(newOrder)
    /\ confirmed' = newOrder
    /\ UNCHANGED <<writes, persisted>>

InitUnseen ==
    /\ EngineIdle
    /\ UtilsIdle
    /\ DebounceIdle
    /\ UsersIdle
    /\ EventsIdle
    /\ localUnseenMovies = <<>>
    /\ pendingTimeout = <<>>
    /\ writes = <<>>
    /\ persisted \in StoredLists
    /\ confirmed = persisted
    /\ event = NoEvent

\* toggleUnseen(id): the updater computes the new list from the state and
\* saves it at once.
toggleUnseen ==
    \E id \in MovieIds :
        /\ Len(writes) < MaxWrites
        /\ localUnseenMovies' = newList(localUnseenMovies, id)
        /\ saveUnseenMovies(newList(localUnseenMovies, id))
        /\ confirmed' = newList(localUnseenMovies, id)
        /\ LET again == /\ event.type = "toggleUnseen"
                         /\ event.movieId = id
                         /\ event.calls = 1
           IN  event' = [type |-> "toggleUnseen", movieId |-> id,
                         active |-> 0, over |-> 0,
                         calls |-> IF again THEN 2 ELSE 1,
                         before |-> IF again THEN event.before
                                    ELSE localUnseenMovies]
        /\ UNCHANGED <<pendingTimeout, persisted, otherThanHook>>

\* handleDragEnd: an item of the list is dropped on an item of the list or
\* outside any target; unseenMovieIds is the hook's list as rendered.
handleDragEnd ==
    \E a \in Range(localUnseenMovies),
       o \in Range(localUnseenMovies) \cup {null} :
        /\ event' = [NoEvent EXCEPT !.type = "handleDragEnd",
                                     !.active = a, !.over = o]
        /\ IF o # null /\ a # o
           THEN LET oldIndex == indexOf(localUnseenMovies, a)
                    newIndex == indexOf(localUnseenMovies, o)
                IN  reorderUnseenMovies(
                        arrayMove(localUnseenMovies, oldIndex, newIndex))
           ELSE UNCHANGED <<localUnseenMovies, pendingTimeout, writes,
                            persisted, confirmed>>
        /\ UNCHANGED otherThanHook

\* debounce: the timeout set last fires and calls saveUnseenMovies with the
\* arguments of the call that set it.
timeoutFires ==
    /\ pendingTimeout # <<>>
    /\ Len(writes) < MaxWrites
    /\ saveUnseenMovies(pendingTimeout[1])
    /\ pendingTimeout' = <<>>
    /\ event' = [NoEvent EXCEPT !.type = "timeout"]
    /\ UNCHANGED <<localUnseenMovies, persisted, confirmed, otherThanHook>>

\* updateUserUnseenMovies: the oldest updateDoc in flight is applied by the
\* server and its promise resolves.
updateDocCompletes ==
    /\ writes # <<>>
    /\ persisted' = Head(writes)
    /\ writes' = Tail(writes)
    /\ event' = [NoEvent EXCEPT !.type = "updateDoc"]
    /\ UNCHANGED <<localUnseenMovies, pendingTimeout, confirmed, otherThanHook>>

\* subscribeToUsers delivers a snapshot; App finds the current user in it and
\* the hook's effect copies that user's unseenMovies into its state.
onSnapshot ==
    /\ localUnseenMovies' = firestoreUserUnseenMovies
    /\ event' = [NoEvent EXCEPT !.type = "onSnapshot"]
    /\ UNCHANGED <<pendingTimeout, writes, persisted, confirmed, otherThanHook>>

NextUnseen ==
    \/ toggleUnseen
    \/ handleDragEnd
    \/ timeoutFires
    \/ updateDocCompletes
    \/ onSnapshot

SpecUnseen == InitUnseen /\ [][NextUnseen]_vars

----------------------------------------------------------------------------
\* Properties of the current user's list, checked under SpecUnseen.

\* x comes before y in s.
Before(s, x, y) == \E i, j \in 1..Len(s) : i < j /\ s[i] = x /\ s[j] = y

\* The position of x in a list that holds it.
PositionOf(s, x) == CHOOSE k \in 1..Len(s) : s[k] = x

\* C17: starting from a stored list without duplicates, after any toggles
\* and drag-and-drop reorders no movie ID occurs twice in the hook's local
\* list, in a list handed to the save path (the argument of a debounced save
\* that is waiting, of an updateDoc in flight) or in the stored list.
C17_ListsStayDuplicateFree ==
    /\ NoDuplicates(localUnseenMovies)
    /\ \A k \in 1..Len(pendingTimeout) : NoDuplicates(pendingTimeout[k])
    /\ \A k \in 1..Len(writes) : NoDuplicates(writes[k])
    /\ NoDuplicates(persisted)

\* A reorder of a full list has just been made while a save is in flight.
C17_Witness ==
    /\ event.type = "handleDragEnd"
    /\ event.over # null
    /\ event.active # event.over
    /\ Len(localUnseenMovies) = NumIds
    /\ pendingTimeout = <<localUnseenMovies>>
    /\ writes # <<>>

\* C18: a toggle of an ID the list lacks appends it at the end; a toggle of
\* an ID the list holds removes it; either way the other IDs are the same
\* and keep their relative order.
C18_ToggleAppendsOrRemoves ==
    [][event'.type = "toggleUnseen" =>
        LET id == event'.movieId
            prev == localUnseenMovies
            new == localUnseenMovies'
        IN  /\ id \notin Range(prev) => new = Append(prev, id)
            /\ id \in Range(prev) =>
                   /\ id \notin Range(new)
                   /\ Len(new) = Len(prev) - 1
            /\ Range(new) \ {id} = Range(prev) \ {id}
            /\ \A x, y \in Range(prev) \ {id} :
                   Before(new, x, y) <=> Before(prev, x, y)]_vars

\* A toggle has just put an ID behind two others.
C18_Witness ==
    /\ event.type = "toggleUnseen"
    /\ Len(localUnseenMovies) = NumIds
    /\ localUnseenMovies[NumIds] = event.movieId

\* C19: when an item is dropped on another item of the list, the list passed
\* to onReorder (the new local list and the argument of the debounced save)
\* has the elements and the length of the list it was computed from and the
\* dragged ID is at the position the drop target had; when the item is
\* dropped on itself or outside any target nothing is reordered or saved.
C19_DragEndReordersByPermutation ==
    [][event'.type = "handleDragEnd" =>
        LET a == event'.active
            o == event'.over
            ids == localUnseenMovies
            newOrder == localUnseenMovies'
        IN  IF o = null \/ a = o
            THEN UNCHANGED <<localUnseenMovies, pendingTimeout, writes>>
            ELSE /\ pendingTimeout' = <<newOrder>>
                 /\ Range(newOrder) = Range(ids)
                 /\ Len(newOrder) = Len(ids)
                 /\ newOrder[PositionOf(ids, o)] = a]_vars

\* The first item of a list of NumIds has just been dropped on a later one
\* and is now last.
C19_Witness ==
    /\ event.type = "handleDragEnd"
    /\ event.over # null
    /\ event.active # event.over
    /\ Len(localUnseenMovies) = NumIds
    /\ localUnseenMovies[NumIds] = event.active
    /\ localUnseenMovies[NumIds - 1] = event.over
    /\ pendingTimeout = <<localUnseenMovies>>

\* C20: once no debounced save is waiting and no updateDoc is in flight, the
\* stored list is the list the user's last toggle or reorder produced.
C20_SettledStoreHoldsConfirmedList ==
    (pendingTimeout = <<>> /\ writes = <<>>) => persisted = confirmed

\* C30: two consecutive toggles of one ID leave the members of the list as
\* they were; the sequence is as it was exactly when the ID was absent or
\* last, and otherwise the ID is now last and the other IDs keep their
\* relative order.
C30_TwoTogglesMoveToEnd ==
    (event.type = "toggleUnseen" /\ event.calls = 2)
        => LET id == event.movieId
               initial == event.before
               final == localUnseenMovies
           IN  /\ Range(final) = Range(initial)
               /\ final = initial
                      <=> (id \notin Range(initial)
                              \/ initial[Len(initial)] = id)
               /\ final # initial
                      => /\ final[Len(final)] = id
                         /\ \A x, y \in Range(initial) \ {id} :
                                Before(final, x, y) <=> Before(initial, x, y)

\* The first ID of a full list has been toggled twice.
C30_Witness ==
    /\ event.type = "toggleUnseen"
    /\ event.calls = 2
    /\ Len(event.before) = NumIds
    /\ event.before[1] = event.movieId
    /\ localUnseenMovies # event.before

----------------------------------------------------------------------------
(***************************************************************************)
(* lib/utils.ts: validateUsername, normalizeUsername and truncateText.  A  *)
(* string is the sequence of its UTF-16 code units, of which the model     *)
(* keeps one of each kind the functions tell apart: a lower-case and an    *)
(* upper-case letter, a digit, the space, another white-space character    *)
(* (the tab) and a character outside the user name alphabet.               *)
(***************************************************************************)

\* Bound on the characters before and after the run of letters of a string.
MaxAffix == 2

\* Bound on the maxLength truncateText is called with.
MaxMaxLength == 5

\* validateUsername: the shortest and the longest name allowed.
MinNameLength == 2
MaxNameLength == 30

Letters == {"a", "A"}
Digits == {"7"}
WhiteSpace == {" ", "\t"}
Chars == Letters \cup Digits \cup WhiteSpace \cup {"!"}

\* String.prototype.repeat.
repeat(c, n) == [k \in 1..n |-> c]

\* The strings the functions are called with: up to MaxAffix characters, a
\* run of letters that is empty or brings the length near MaxNameLength, and
\* up to MaxAffix characters.
Strings ==
    {h \o repeat("a", n) \o t :
        h \in SeqsUpTo(Chars, MaxAffix), t \in SeqsUpTo(Chars, MaxAffix),
        n \in {0} \cup ((MaxNameLength - 2 * MaxAffix)..(MaxNameLength + 1))}

\* String.prototype.trimStart.
RECURSIVE trimStart(_)
trimStart(s) ==
    IF s # <<>> /\ Head(s) \in WhiteSpace THEN trimStart(Tail(s)) ELSE s

\* String.prototype.trimEnd.
RECURSIVE trimEnd(_)
trimEnd(s) ==
    IF s # <<>> /\ s[Len(s)] \in WhiteSpace
    THEN trimEnd(SubSeq(s, 1, Len(s) - 1))
    ELSE s

\* String.prototype.trim.
trim(s) == trimEnd(trimStart(s))

\* /^[a-zA-Z0-9 ]+$/.test(s)
testNameAlphabet(s) ==
    /\ Len(s) >= 1
    /\ \A k \in 1..Len(s) : s[k] \in Letters \cup Digits \cup {" "}

\* Mutant of validateUsername: the characters are tested before the length.
validateUsername_TestsCharactersFirst(name) ==
    LET trimmed == trim(name)
    IN  IF ~testNameAlphabet(trimmed)
        THEN [valid |-> FALSE,
              error |-> "Name can only contain letters, numbers, and spaces"]
        ELSE IF Len(trimmed) < MinNameLength
        THEN [valid |-> FALSE, error |-> "Name must be at least 2 characters"]
        ELSE IF Len(trimmed) > MaxNameLength
        THEN [valid |-> FALSE, error |-> "Name must be 30 characters or less"]
        ELSE [valid |-> TRUE, error |-> "undefined"]

\* validateUsername; error is "undefined" in the result without an error.
validateUsername(name) ==
    LET trimmed == trim(name)
    IN  IF Len(trimmed) < MinNameLength
        THEN [valid |-> FALSE, error |-> "Name must be at least 2 characters"]
        ELSE IF Len(trimmed) > MaxNameLength
        THEN [valid |-> FALSE, error |-> "Name must be 30 characters or less"]
        ELSE IF ~testNameAlphabet(trimmed)
        THEN [valid |-> FALSE,
              error |-> "Name can only contain letters, numbers, and spaces"]
        ELSE [valid |-> TRUE, error |-> "undefined"]

\* String.prototype.slice(0, end): a negative end counts from the end of s.
slice0(s, end) ==
    LET to == IF end < 0 THEN (IF Len(s) + end > 0 THEN Len(s) + end ELSE 0)
              ELSE (IF end < Len(s) THEN end ELSE Len(s))
    IN  SubSeq(s, 1, to)

\* truncateText
truncateText(text, maxLength) ==
    IF Len(text) <= maxLength THEN text
    ELSE trim(slice0(text, maxLength - 3)) \o <<".", ".", ".">>

InitUtils ==
    /\ EngineIdle
    /\ HookIdle
    /\ DebounceIdle
    /\ UsersIdle
    /\ EventsIdle
    /\ calledFn = "none"
    /\ argString \in Strings
    /\ argNumber = 0
    /\ returned = <<>>

CallValidateUsername ==
    /\ calledFn' = "validateUsername"
    /\ argNumber' = 0
    /\ returned' = validateUsername(argString)
    /\ UNCHANGED <<argString, otherThanUtils>>

CallTruncateText ==
    \E maxLength \in 0..MaxMaxLength :
        /\ calledFn' = "truncateText"
        /\ argNumber' = maxLength
        /\ returned' = truncateText(argString, maxLength)
        /\ UNCHANGED <<argString, otherThanUtils>>

NextUtils ==
    \/ CallValidateUsername
    \/ CallTruncateText

SpecUtils == InitUtils /\ [][NextUtils]_vars

----------------------------------------------------------------------------
\* Properties of the utilities, checked under SpecUtils.

\* The characters of s from its first to its last that is not white space.
Trimmed(s) ==
    LET inked == {k \in 1..Len(s) : s[k] \notin WhiteSpace}
    IN  IF inked = {} THEN <<>>
        ELSE SubSeq(s, CHOOSE k \in inked : \A j \in inked : k <= j,
                       CHOOSE k \in inked : \A j \in inked : k >= j)

\* C23: validateUsername(name) is valid exactly when the trimmed name has 2
\* to 30 characters, all of them letters, digits or spaces; otherwise it is
\* invalid with one error: too short, else too long, else illegal character.
C23_ValidNamesAndErrorOrder ==
    calledFn = "validateUsername"
        => LET t == Trimmed(argString)
               legal == \A k \in 1..Len(t) :
                            t[k] \in Letters \cup Digits \cup {" "}
           IN  /\ returned.valid
                      <=> (2 <= Len(t) /\ Len(t) <= 30 /\ legal)
               /\ returned.valid => returned.error = "undefined"
               /\ ~returned.valid =>
                      returned.error =
                          IF Len(t) < 2
                          THEN "Name must be at least 2 characters"
                          ELSE IF Len(t) > 30
                          THEN "Name must be 30 characters or less"
                          ELSE "Name can only contain letters, numbers, and spaces"

\* A name too long and with an illegal character is reported as too long.
C23_Witness ==
    /\ calledFn = "validateUsername"
    /\ Len(Trimmed(argString)) = 31
    /\ Len(argString) > 31
    /\ \E k \in 1..Len(argString) : argString[k] = "!"
    /\ returned.error = "Name must be 30 characters or less"

\* C24: truncateText(text, maxLength) returns text when it has at most
\* maxLength characters, and otherwise a string that ends in "..." and has at
\* most maxLength characters, for every maxLength from 0 on.
C24_TruncatedTextFitsMaxLength ==
    calledFn = "truncateText"
        => IF Len(argString) <= argNumber THEN returned = argString
           ELSE /\ Len(returned) >= 3
                /\ SubSeq(returned, Len(returned) - 2, Len(returned))
                       = <<".", ".", ".">>
                /\ Len(returned) <= argNumber

----------------------------------------------------------------------------
(***************************************************************************)
(* lib/utils.ts: debounce(fn, delay).  Time is counted in ticks.  A        *)
(* timeout set at time t with delay d is due at t + d; the event loop runs *)
(* a due timeout before time goes on and before any further call.  calls   *)
(* and invoked are not variables of the code: they record when the         *)
(* debounced function was called and when fn was invoked, with what, and   *)
(* after how many of the calls.                                            *)
(***************************************************************************)

\* Bounds: the delays, the arguments, the calls and the time modelled.
MaxDelay == 2
NumArgs == 2
MaxCalls == 3
MaxTime == 6

\* Mutant of clearTimeout: the timeout stays set.
clearTimeout_LeavesTimeout(ts, id) == ts

\* clearTimeout(id): the timeout id, if still set, is dropped.
clearTimeout(ts, id) == {t \in ts : t.id # id}

\* setTimeout(callback, delay), the callback invoking fn(...args); id is the
\* timeout ID returned.
setTimeout(ts, id, args) ==
    ts \cup {[id |-> id, due |-> now + delay, args |-> args]}

InitDebounce ==
    /\ EngineIdle
    /\ HookIdle
    /\ UtilsIdle
    /\ UsersIdle
    /\ EventsIdle
    /\ now = 0
    /\ delay \in 1..MaxDelay
    /\ timeoutId = 0
    /\ timers = {}
    /\ calls = <<>>
    /\ invoked = <<>>

Due == {t \in timers : t.due = now}

\* The function debounce returned is called with args.
debounced ==
    \E args \in 1..NumArgs :
        /\ Len(calls) < MaxCalls
        /\ now + delay <= MaxTime
        /\ Due = {}
        /\ LET id == Len(calls) + 1
           IN  /\ timers' = setTimeout(IF timeoutId # 0
                                       THEN clearTimeout(timers, timeoutId)
                                       ELSE timers,
                                       id, args)
               /\ timeoutId' = id
        /\ calls' = Append(calls, [at |-> now, args |-> args])
        /\ UNCHANGED <<now, delay, invoked, otherThanDebounce>>

\* A timeout that is due runs its callback: fn(...args).
timeoutCallback ==
    \E t \in Due :
        /\ timers' = timers \ {t}
        /\ invoked' = Append(invoked, [at |-> now, args |-> t.args,
                                       after |-> Len(calls)])
        /\ UNCHANGED <<now, delay, timeoutId, calls, otherThanDebounce>>

\* Time goes on by a tick.
Tick ==
    /\ now < MaxTime
    /\ Due = {}
    /\ now' = now + 1
    /\ UNCHANGED <<delay, timeoutId, timers, calls, invoked, otherThanDebounce>>

NextDebounce ==
    \/ debounced
    \/ timeoutCallback
    \/ Tick

\* The event loop keeps running: time goes on and due timeouts run.
SpecDebounce ==
    /\ InitDebounce
    /\ [][NextDebounce]_vars
    /\ WF_vars(timeoutCallback)
    /\ WF_vars(Tick)

----------------------------------------------------------------------------
\* Properties of debounce, checked under SpecDebounce.

\* Call k is the last of its burst: the next call, if any, comes at least
\* delay after it.
LastOfBurst(k) == k = Len(calls) \/ calls[k + 1].at - calls[k].at >= delay

\* The invocation the burst ending in call k is owed.
Owed(k) == [at |-> calls[k].at + delay, args |-> calls[k].args, after |-> k]

\* fn has been invoked exactly for the bursts whose last call lies delay or
\* more back and whose timeout is not waiting to run: once each, delay after
\* that call and with its arguments, and so never within a burst.
InvokedOncePerBurst ==
    LET ended == {k \in 1..Len(calls) :
                     /\ LastOfBurst(k)
                     /\ calls[k].at + delay <= now
                     /\ \A t \in timers : t.id # k}
    IN  /\ Len(invoked) = Cardinality(ended)
        /\ \A k \in ended :
               Cardinality({i \in 1..Len(invoked) : invoked[i] = Owed(k)}) = 1
        /\ \A i \in 1..Len(invoked) : \E k \in ended : invoked[i] = Owed(k)
        /\ \A i \in 1..Len(invoked), k \in 1..(Len(calls) - 1) :
               ~LastOfBurst(k) =>
                   invoked[i].after # k

\* C25: fn runs once per burst of calls less than delay apart, not during
\* the burst but delay after its last call and with that call's arguments;
\* and the timeout of every call is cleared by a later call or fires.
C25_OncePerBurstAndEveryTimeoutEnds ==
    /\ []InvokedOncePerBurst
    /\ \A id \in 1..MaxCalls :
           (\E t \in timers : t.id = id) ~> (\A t \in timers : t.id # id)

\* A burst of two calls has been answered by one invocation with the
\* arguments of the second, and a later call by another.
C25_Witness ==
    /\ Len(calls) = 3
    /\ delay = 2
    /\ calls[2].at - calls[1].at = 1
    /\ calls[1].args # calls[2].args
    /\ Len(invoked) = 2
    /\ invoked[1] = [at |-> calls[2].at + delay, args |-> calls[2].args,
                     after |-> 2]

----------------------------------------------------------------------------
(***************************************************************************)
(* The users collection: db/users.ts and the login of                      *)
(* hooks/useCurrentUser.ts, in connected mode.  A document of the          *)
(* collection lives under the key name.toLowerCase().trim().  Every call   *)
(* of getDoc, setDoc and updateDoc is one step, taken when the server      *)
(* answers; a login is the steps of its awaits, and the logins of several  *)
(* clients interleave.  Of a document only name and unseenMovies are kept. *)
(***************************************************************************)

\* Bound on the clients logging in.
NumClients == 2

Clients == 1..NumClients

\* The names typed: two spellings of one user name and another name, all of
\* them accepted by validateUsername.
Names == {<<"A", "a">>, <<"a", "a", " ">>, <<"7", "7">>}

\* The lists saved.
SavedLists == {list \in StoredLists : Len(list) <= MaxLen}

\* String.prototype.toLowerCase.
toLowerCase(str) == [k \in 1..Len(str) |-> IF str[k] = "A" THEN "a" ELSE str[k]]

\* Mutant of normalizedName: the name is trimmed but keeps its case.
normalizedName_KeepsCase(name) == trim(name)

\* const normalizedName = name.toLowerCase().trim()
normalizedName(name) == trim(toLowerCase(name))

\* The document IDs the collection is asked for, in the order of a query's
\* snapshot.
KeySeq == <<<<"7", "7">>, <<"A", "a">>, <<"a", "a">>>>

Keys == Range(KeySeq)

\* The snapshot of a document that does not exist.
NoDoc == [exists |-> FALSE, name |-> <<>>, unseenMovies |-> <<>>]

\* getUser and subscribeToUsers: the User made of a document's data.
userOf(data) == [name |-> data.name, unseenMovies |-> data.unseenMovies]

\* The document createUser sets.
newUserDoc(name) == [exists |-> TRUE, name |-> name, unseenMovies |-> <<>>]

\* A database call that has returned.
Op(called, client, name, list, res) ==
    [op |-> called, client |-> client, name |-> name, list |-> list,
     result |-> res]

InitUsers ==
    /\ EngineIdle
    /\ HookIdle
    /\ UtilsIdle
    /\ DebounceIdle
    /\ EventsIdle
    /\ store = [k \in Keys |-> NoDoc]
    /\ session = [c \in Clients |->
                     [pc |-> "idle", trimmedName |-> <<>>, localUser |-> <<>>]]
    /\ lastOp = Op("none", 0, <<>>, <<>>, FALSE)

\* login(name) starts: the name is trimmed and isUsernameAvailable is called.
login ==
    \E c \in Clients, name \in Names :
        /\ session[c].pc = "idle"
        /\ validateUsername(name).valid
        /\ session' = [session EXCEPT ![c].pc = "isUsernameAvailable",
                                      ![c].trimmedName = trim(name)]
        /\ lastOp' = Op("login", c, name, <<>>, FALSE)
        /\ UNCHANGED <<store, otherThanUsers>>

\* isUsernameAvailable returns !snapshot.exists(); login goes on to getUser
\* or to createUser.
isUsernameAvailableReturns ==
    \E c \in Clients :
        /\ session[c].pc = "isUsernameAvailable"
        /\ LET available ==
                   ~store[normalizedName(session[c].trimmedName)].exists
           IN  /\ session' = [session EXCEPT ![c].pc =
                                 IF available THEN "createUser" ELSE "getUser"]
               /\ lastOp' = Op("isUsernameAvailable", c,
                               session[c].trimmedName, <<>>, available)
        /\ UNCHANGED <<store, otherThanUsers>>

\* createUser returns: setDoc has written the new user's document; login
\* sets localUser.
createUserReturns ==
    \E c \in Clients :
        /\ session[c].pc = "createUser"
        /\ store' = [store EXCEPT ![normalizedName(session[c].trimmedName)] =
                        newUserDoc(session[c].trimmedName)]
        /\ session' = [session EXCEPT ![c].pc = "loggedIn",
                                      ![c].localUser = session[c].trimmedName]
        /\ lastOp' = Op("createUser", c, session[c].trimmedName, <<>>,
                        userOf(newUserDoc(session[c].trimmedName)))
        /\ UNCHANGED otherThanUsers

\* login's getUser returns: the existing user is logged in; without one the
\* name is only saved locally.
loginGetUserReturns ==
    \E c \in Clients :
        /\ session[c].pc = "getUser"
        /\ LET data == store[normalizedName(session[c].trimmedName)]
           IN  /\ session' = [session EXCEPT
                                 ![c].pc = "loggedIn",
                                 ![c].localUser =
                                     IF data.exists THEN data.name
                                     ELSE session[c].trimmedName]
               /\ lastOp' = Op("login getUser", c, session[c].trimmedName,
                               <<>>, data)
        /\ UNCHANGED <<store, otherThanUsers>>

\* logout
logout ==
    \E c \in Clients :
        /\ session[c].pc = "loggedIn"
        /\ session' = [session EXCEPT ![c].pc = "idle",
                                      ![c].trimmedName = <<>>,
                                      ![c].localUser = <<>>]
        /\ lastOp' = Op("logout", c, <<>>, <<>>, FALSE)
        /\ UNCHANGED <<store, otherThanUsers>>

\* updateUserUnseenMovies(name, unseenMovies) returns for a logged-in client
\* saving a list under its localUser name: updateDoc has set the field, or
\* has failed for want of the document.
updateUserUnseenMoviesReturns ==
    \E c \in Clients, list \in SavedLists :
        /\ session[c].pc = "loggedIn"
        /\ LET name == session[c].localUser
               key == normalizedName(name)
           IN  /\ store' = IF store[key].exists
                           THEN [store EXCEPT ![key].unseenMovies = list]
                           ELSE store
               /\ lastOp' = Op("updateUserUnseenMovies", c, name, list,
                               store[key].exists)
        /\ UNCHANGED <<session, otherThanUsers>>

\* getUser(name) returns, for any spelling of a name.
getUserReturns ==
    \E name \in Names :
        /\ lastOp' = Op("getUser", 0, name, <<>>,
                        IF store[normalizedName(name)].exists
                        THEN userOf(store[normalizedName(name)])
                        ELSE userOf(NoDoc))
        /\ UNCHANGED <<store, session, otherThanUsers>>

\* subscribeToUsers: a snapshot of the collection is delivered.
usersSnapshot ==
    /\ lastOp' = Op("onSnapshot", 0, <<>>, <<>>,
                    LET docs == SelectSeq(KeySeq, LAMBDA k : store[k].exists)
                    IN  [i \in 1..Len(docs) |-> userOf(store[docs[i]])])
    /\ UNCHANGED <<store, session, otherThanUsers>>

NextUsers ==
    \/ login
    \/ isUsernameAvailableReturns
    \/ createUserReturns
    \/ loginGetUserReturns
    \/ logout
    \/ updateUserUnseenMoviesReturns
    \/ getUserReturns
    \/ usersSnapshot

SpecUsers == InitUsers /\ [][NextUsers]_vars

----------------------------------------------------------------------------
\* Properties of the users collection, checked under SpecUsers.

\* C21: a login for a name whose user exists never creates or overwrites
\* the record: a createUser of a login leaves every existing document, and
\* with it the user's unseenMovies, as it was.
C21_LoginNeverOverwritesUser ==
    [][lastOp'.op = "createUser"
          => \A k \in Keys : store[k].exists => store'[k] = store[k]]_vars

\* Two names are the same user name: equal, case aside, once trimmed.
SameUserName(a, b) ==
    LET Fold(c) == IF c = "A" THEN "a" ELSE c
    IN  /\ Len(Trimmed(a)) = Len(Trimmed(b))
        /\ \A k \in 1..Len(Trimmed(a)) :
               Fold(Trimmed(a)[k]) = Fold(Trimmed(b)[k])

\* C22: when updateUserUnseenMovies(name, list) has completed for an
\* existing user, a getUser that follows, under any spelling of the name with
\* the same key, and a snapshot that follows hold for that user a list equal
\* to list, element for element and in order.
C22_SavedOrderIsReadBack ==
    [][(lastOp.op = "updateUserUnseenMovies" /\ lastOp.result)
          => /\ (lastOp'.op = "getUser"
                    /\ SameUserName(lastOp'.name, lastOp.name))
                   => lastOp'.result.unseenMovies = lastOp.list
             /\ lastOp'.op = "onSnapshot"
                   => \E i \in 1..Len(lastOp'.result) :
                          /\ SameUserName(lastOp'.result[i].name, lastOp.name)
                          /\ lastOp'.result[i].unseenMovies = lastOp.list
                          /\ \A j \in 1..Len(lastOp'.result) :
                                 SameUserName(lastOp'.result[j].name,
                                              lastOp.name) => j = i]_vars

\* A list of two saved under one spelling has been read back under another.
C22_Witness ==
    /\ lastOp.op = "getUser"
    /\ lastOp.name = <<"a", "a", " ">>
    /\ lastOp.result.name = <<"A", "a">>
    /\ Len(lastOp.result.unseenMovies) = MaxLen
    /\ lastOp.result.unseenMovies[1] > lastOp.result.unseenMovies[2]

----------------------------------------------------------------------------
(***************************************************************************)
(* A scheduled event: createEvent and toggleRSVP of db/scheduling.ts, the  *)
(* scheduleEvent and toggleRSVP of hooks/useScheduling.ts and the          *)
(* handleScheduleFromSummary of App.tsx, in connected mode.  One event is  *)
(* followed from its creation.  getDoc and setDoc are one step each, so a  *)
(* toggleRSVP is two steps, and the toggles of several users interleave.   *)
(* toggles, and the first field of eventDoc, are not data of the code:     *)
(* they count the toggles completed and keep the attendees the event was   *)
(* created with.                                                           *)
(***************************************************************************)

\* Bound on the toggleRSVP calls of one user.
MaxToggles == 2

\* The users, by the name of their localUser.
EventUsers == {<<"A", "a">>, <<"7", "7">>, <<"a", "7">>}

\* No event has been created.
NoEventDoc ==
    [exists |-> FALSE, createdBy |-> <<>>, hasAttendees |-> FALSE,
     attendees |-> <<>>, first |-> <<>>]

\* data.attendees || []
attendeesOf(data) == IF data.hasAttendees THEN data.attendees ELSE <<>>

\* attendees.findIndex((name) => name.toLowerCase() === normalizedName), as a
\* zero-based index or -1.
RECURSIVE FindIndexFrom(_, _, _)
FindIndexFrom(attendees, normalized, k) ==
    IF k >= Len(attendees) THEN -1
    ELSE IF toLowerCase(attendees[k + 1]) = normalized THEN k
    ELSE FindIndexFrom(attendees, normalized, k + 1)

findIndex(attendees, normalized) == FindIndexFrom(attendees, normalized, 0)

\* toggleRSVP: the attendees it writes, given those it read.
toggledAttendees(attendees, userName) ==
    LET existingIndex == findIndex(attendees, normalizedName(userName))
    IN  IF existingIndex >= 0 THEN SpliceOut(attendees, existingIndex)
        ELSE Append(attendees, userName)

InitEvents ==
    /\ EngineIdle
    /\ HookIdle
    /\ UtilsIdle
    /\ DebounceIdle
    /\ UsersIdle
    /\ eventDoc = NoEventDoc
    /\ rsvp = [u \in EventUsers |-> [pc |-> "idle", attendees |-> <<>>]]
    /\ toggles = [u \in EventUsers |-> 0]
    /\ eventSeen = NoEventDoc

\* useScheduling.scheduleEvent: createEvent with attendees: [currentUserName].
scheduleEvent ==
    \E u \in EventUsers :
        /\ ~eventDoc.exists
        /\ eventDoc' = [exists |-> TRUE, createdBy |-> u,
                        hasAttendees |-> TRUE, attendees |-> <<u>>,
                        first |-> <<u>>]
        /\ UNCHANGED <<rsvp, toggles, eventSeen, otherThanEvents>>

\* App.handleScheduleFromSummary: createEvent without an attendees field.
handleScheduleFromSummary ==
    \E u \in EventUsers :
        /\ ~eventDoc.exists
        /\ eventDoc' = [exists |-> TRUE, createdBy |-> u,
                        hasAttendees |-> FALSE, attendees |-> <<>>,
                        first |-> <<>>]
        /\ UNCHANGED <<rsvp, toggles, eventSeen, otherThanEvents>>

\* toggleRSVP(eventId, userName) up to its setDoc: the event is read and the
\* user taken out of, or put into, the attendees read.
toggleRSVPReads ==
    \E u \in EventUsers :
        /\ eventDoc.exists
        /\ rsvp[u].pc = "idle"
        /\ toggles[u] < MaxToggles
        /\ rsvp' = [rsvp EXCEPT ![u] =
                       [pc |-> "setDoc",
                        attendees |-> toggledAttendees(attendeesOf(eventDoc), u)]]
        /\ UNCHANGED <<eventDoc, toggles, eventSeen, otherThanEvents>>

\* toggleRSVP: setDoc(eventRef, { attendees }, { merge: true }) is applied.
toggleRSVPWrites ==
    \E u \in EventUsers :
        /\ rsvp[u].pc = "setDoc"
        /\ eventDoc' = [eventDoc EXCEPT !.hasAttendees = TRUE,
                                        !.attendees = rsvp[u].attendees]
        /\ rsvp' = [rsvp EXCEPT ![u] = [pc |-> "idle", attendees |-> <<>>]]
        /\ toggles' = [toggles EXCEPT ![u] = toggles[u] + 1]
        /\ UNCHANGED <<eventSeen, otherThanEvents>>

\* subscribeToEvents: a snapshot is delivered, attendees: data.attendees || [].
eventsSnapshot ==
    /\ eventDoc.exists
    /\ eventSeen' = [eventDoc EXCEPT !.hasAttendees = TRUE,
                                     !.attendees = attendeesOf(eventDoc)]
    /\ UNCHANGED <<eventDoc, rsvp, toggles, otherThanEvents>>

NextEvents ==
    \/ scheduleEvent
    \/ handleScheduleFromSummary
    \/ toggleRSVPReads
    \/ toggleRSVPWrites
    \/ eventsSnapshot

SpecEvents == InitEvents /\ [][NextEvents]_vars

----------------------------------------------------------------------------
\* Properties of a scheduled event, checked under SpecEvents.

\* C26: an event created through the application is stored, and seen by the
\* subscribers, with its creator among the attendees for as long as the
\* creator has not toggled their RSVP.
C26_CreatorAttends ==
    /\ (eventDoc.exists /\ toggles[eventDoc.createdBy] = 0)
           => eventDoc.createdBy \in Range(attendeesOf(eventDoc))
    /\ (eventSeen.exists /\ toggles[eventSeen.createdBy] = 0)
           => eventSeen.createdBy \in Range(eventSeen.attendees)

\* C29: when every toggleRSVP has completed, a user is among the attendees
\* exactly when they were at the creation and have toggled an even number of
\* times, or were not and have toggled an odd number of times.
C29_TogglesOnlyChangeOwnRSVP ==
    (eventDoc.exists /\ \A u \in EventUsers : rsvp[u].pc = "idle")
        => \A u \in EventUsers :
               u \in Range(attendeesOf(eventDoc))
                   <=> ((u \in Range(eventDoc.first)) <=> (toggles[u] % 2 = 0))

====
